---- MODULE Spec2Model ----
(***************************************************************************)
(* Bond price calculator: YieldCurve (piecewise-linear interpolation) and  *)
(* BondPriceCalculator (validation, static price, curve perturbation,      *)
(* Monte Carlo driver), modelled from bond_price_calc.cpp.                 *)
(*                                                                         *)
(* A double is modelled as an exact rational <<n, d>> in lowest terms with *)
(* d > 0; the IEEE special values are <<0, 0>> (NaN), <<1, 0>> (+inf) and  *)
(* <<-1, 0>> (-inf), produced by a division by zero exactly as the         *)
(* hardware produces them.  Rounding is not modelled.                      *)
(* An absent object (a constructor that threw, a call not yet made) is the *)
(* empty sequence; a present one is a one-element sequence.                *)
(***************************************************************************)
EXTENDS Integers, Sequences, FiniteSets, TLC

VARIABLES
    yc,             \* the YieldCurve under test: <<>> or <<curve>>
    ycErr,          \* what() of the exception its constructor threw, "" if none
    ycArgs,         \* <<>> or <<[maturities, rates]>>: the constructor's arguments
    interp,         \* <<>> or <<the last interpolate call on yc>>
    calc,           \* the BondPriceCalculator: <<>> or <<object>>
    calcErr,        \* what() of the exception its constructor threw, "" if none
    calcArgs,       \* <<>> or <<the constructor's arguments>>
    static_price,   \* <<>> or <<the last calculateStaticPrice() call>>
    base_price,     \* <<>> or <<the last calculatePrice(yield_curve) call>>
    mc_pc,          \* position in calculateMonteCarlo: "idle" or "loop"
    mc_i,           \* its loop counter i
    prices,         \* its local vector prices
    shifted_curve,  \* its local shifted_curve of the current trial: <<>> or <<curve>>
    priced_curve,   \* the argument of its last calculatePrice call: <<>> or <<curve>>
    mc_result,      \* <<>> or <<the pair the last call returned>>
    mc_calls,       \* completed calculateMonteCarlo calls on calc
    gen,            \* samples dist(gen) has drawn since construction
    overflow_mode   \* what this build does on signed int overflow: "wrap" or "trap"

vars == <<yc, ycErr, ycArgs, interp, calc, calcErr, calcArgs, static_price,
          base_price, mc_pc, mc_i, prices, shifted_curve, priced_curve,
          mc_result, mc_calls, gen, overflow_mode>>

curveVars == <<yc, ycErr, ycArgs, interp>>
calcVars == <<calc, calcErr, calcArgs>>
priceVars == <<static_price, base_price>>
mcVars == <<mc_pc, mc_i, prices, shifted_curve, priced_curve, mc_result,
            mc_calls, gen, overflow_mode>>

-----------------------------------------------------------------------------
(* Bounds of the model *)

MaxLen == 3         \* points of a curve handed to the YieldCurve constructor
MaxYears == 2       \* years_to_maturity of the engines built
MaxCoupons == 2     \* coupons_per_year of the engines built
MaxSims == 2        \* num_simulations of the engines built
MaxCalls == 2       \* calculateMonteCarlo calls made on one engine
MaxDraws == 4       \* samples one calculateMonteCarlo call draws:
                    \* years_to_maturity * num_simulations of the engines built

-----------------------------------------------------------------------------
(* double arithmetic *)

Abs(x) == IF x < 0 THEN -x ELSE x

RECURSIVE Gcd(_, _)
Gcd(a, b) == IF b = 0 THEN a ELSE Gcd(b, a % b)

NaN == <<0, 0>>
PosInf == <<1, 0>>
NegInf == <<-1, 0>>

Sign(n) == IF n < 0 THEN -1 ELSE IF n > 0 THEN 1 ELSE 0

\* n / d in lowest terms, d # 0
Rat(n, d) ==
    LET g == Gcd(Abs(n), Abs(d))
        s == IF d < 0 THEN -1 ELSE 1
    IN  <<s * (n \div g), s * (d \div g)>>

I(n) == <<n, 1>>
Zero == I(0)
One == I(1)

IsFinite(a) == a[2] # 0
IsNaN(a) == a = NaN

dNeg(a) == <<-a[1], a[2]>>

dAdd(a, b) ==
    IF IsFinite(a) /\ IsFinite(b)
    THEN LET g == Gcd(a[2], b[2])
         IN  Rat(a[1] * (b[2] \div g) + b[1] * (a[2] \div g), (a[2] \div g) * b[2])
    ELSE IF IsNaN(a) \/ IsNaN(b) THEN NaN
    ELSE IF IsFinite(a) THEN b
    ELSE IF IsFinite(b) THEN a
    ELSE IF a = b THEN a ELSE NaN

dSub(a, b) == dAdd(a, dNeg(b))

dMul(a, b) ==
    IF IsFinite(a) /\ IsFinite(b)
    THEN IF a[1] = 0 \/ b[1] = 0 THEN Zero
         ELSE LET g1 == Gcd(Abs(a[1]), b[2])
                  g2 == Gcd(Abs(b[1]), a[2])
              IN  <<(a[1] \div g1) * (b[1] \div g2), (a[2] \div g2) * (b[2] \div g1)>>
    ELSE IF IsNaN(a) \/ IsNaN(b) \/ a[1] = 0 \/ b[1] = 0 THEN NaN
    ELSE <<Sign(a[1]) * Sign(b[1]), 0>>

dDiv(a, b) ==
    IF IsNaN(a) \/ IsNaN(b) THEN NaN
    ELSE IF IsFinite(b)
    THEN IF b[1] = 0
         THEN <<Sign(a[1]), 0>>                     \* x/0 = +-inf, 0/0 = NaN
         ELSE dMul(a, Rat(b[2], b[1]))
    ELSE IF IsFinite(a) THEN Zero ELSE NaN

\* a < b; every comparison with NaN is false
dLt(a, b) ==
    IF IsNaN(a) \/ IsNaN(b) THEN FALSE
    ELSE IF IsFinite(a) /\ IsFinite(b) THEN a[1] * b[2] < b[1] * a[2]
    ELSE IF IsFinite(a) THEN b = PosInf
    ELSE IF IsFinite(b) THEN a = NegInf
    ELSE a = NegInf /\ b = PosInf

dLe(a, b) == ~IsNaN(a) /\ ~IsNaN(b) /\ (a = b \/ dLt(a, b))

\* std::max(a, b) == (a < b) ? b : a
dMax(a, b) == IF dLt(a, b) THEN b ELSE a

RECURSIVE dPowNat(_, _)
dPowNat(b, n) == IF n = 0 THEN One ELSE dMul(b, dPowNat(b, n - 1))

\* std::pow(double, int)
dPow(b, n) == IF n >= 0 THEN dPowNat(b, n) ELSE dDiv(One, dPowNat(b, -n))

-----------------------------------------------------------------------------
(* class YieldCurve *)

MismatchMsg == "Maturities and rates must have the same size"

\* Mutant of YieldCurve: the size check written with < instead of !=
YieldCurve_lessThan(maturities, rates) ==
    IF Len(maturities) < Len(rates)
    THEN [err |-> MismatchMsg, obj |-> <<>>]
    ELSE [err |-> "", obj |-> <<[maturities |-> maturities, rates |-> rates]>>]

\* The constructor: the object it leaves, or the exception it throws.
YieldCurve(maturities, rates) ==
    IF Len(maturities) # Len(rates)
    THEN [err |-> MismatchMsg, obj |-> <<>>]
    ELSE [err |-> "", obj |-> <<[maturities |-> maturities, rates |-> rates]>>]

\* std::lower_bound's binary search; first is a 0-based offset from begin()
RECURSIVE lower_bound_loop(_, _, _, _)
lower_bound_loop(m, t, first, len) ==
    IF len <= 0 THEN first
    ELSE LET half == len \div 2
             middle == first + half
         IN  IF dLt(m[middle + 1], t)
             THEN lower_bound_loop(m, t, middle + 1, len - half - 1)
             ELSE lower_bound_loop(m, t, first, half)

\* Mutant of lower_bound: std::upper_bound, the first offset whose element is > t
RECURSIVE upper_bound_loop(_, _, _, _)
upper_bound_loop(m, t, first, len) ==
    IF len <= 0 THEN first
    ELSE LET half == len \div 2
             middle == first + half
         IN  IF dLt(t, m[middle + 1])
             THEN upper_bound_loop(m, t, first, half)
             ELSE upper_bound_loop(m, t, middle + 1, len - half - 1)

upper_bound(m, t) == upper_bound_loop(m, t, 0, Len(m))

lower_bound(m, t) == lower_bound_loop(m, t, 0, Len(m))

\* Mutant of interpolateStep: t1 read from maturities[index - 1] like t0
interpolateStep_samePoint(c, t) ==
    LET it == lower_bound(c.maturities, t)
        n == Len(c.maturities)
    IN  IF it = 0
        THEN [t |-> t, branch |-> "front", index |-> it, den |-> One,
              value |-> c.rates[1]]
        ELSE IF it = n
        THEN [t |-> t, branch |-> "back", index |-> it, den |-> One,
              value |-> c.rates[Len(c.rates)]]
        ELSE LET t0 == c.maturities[it]
                 t1 == c.maturities[it]
                 r0 == c.rates[it]
                 r1 == c.rates[it + 1]
             IN  [t |-> t, branch |-> "linear", index |-> it,
                  den |-> dSub(t1, t0),
                  value |-> dAdd(r0, dDiv(dMul(dSub(r1, r0), dSub(t, t0)),
                                          dSub(t1, t0)))]

\* One interpolate call on a non-empty curve: the branch it takes, the offset
\* `it` found, the denominator of the linear branch and the value returned.
interpolateStep(c, t) ==
    LET it == lower_bound(c.maturities, t)
        n == Len(c.maturities)
    IN  IF it = 0
        THEN [t |-> t, branch |-> "front", index |-> it, den |-> One,
              value |-> c.rates[1]]
        ELSE IF it = n
        THEN [t |-> t, branch |-> "back", index |-> it, den |-> One,
              value |-> c.rates[Len(c.rates)]]
        ELSE LET t0 == c.maturities[it]
                 t1 == c.maturities[it + 1]
                 r0 == c.rates[it]
                 r1 == c.rates[it + 1]
             IN  [t |-> t, branch |-> "linear", index |-> it,
                  den |-> dSub(t1, t0),
                  value |-> dAdd(r0, dDiv(dMul(dSub(r1, r0), dSub(t, t0)),
                                          dSub(t1, t0)))]

interpolate(c, t) == interpolateStep(c, t).value

-----------------------------------------------------------------------------
(* class BondPriceCalculator *)

FaceValueMsg == "Face value must be positive"
CouponRateMsg == "Coupon rate cannot be negative"
MaturityMsg == "Years to maturity must be positive"
CouponsMsg == "Coupons per year must be positive"
SimulationsMsg == "Number of simulations must be positive"

\* Mutant of validateInputs: the simulation count checked first
validateInputs_simsFirst(e) ==
    IF e.num_simulations <= 0 THEN SimulationsMsg
    ELSE IF dLe(e.face_value, Zero) THEN FaceValueMsg
    ELSE IF dLt(e.coupon_rate, Zero) THEN CouponRateMsg
    ELSE IF e.years_to_maturity <= 0 THEN MaturityMsg
    ELSE IF e.coupons_per_year <= 0 THEN CouponsMsg
    ELSE ""

\* Mutant of validateInputs: at least two simulations required
validateInputs_twoSims(e) ==
    IF dLe(e.face_value, Zero) THEN FaceValueMsg
    ELSE IF dLt(e.coupon_rate, Zero) THEN CouponRateMsg
    ELSE IF e.years_to_maturity <= 0 THEN MaturityMsg
    ELSE IF e.coupons_per_year <= 0 THEN CouponsMsg
    ELSE IF e.num_simulations <= 1 THEN SimulationsMsg
    ELSE ""

\* what() of the exception validateInputs throws, "" when it returns
validateInputs(e) ==
    IF dLe(e.face_value, Zero) THEN FaceValueMsg
    ELSE IF dLt(e.coupon_rate, Zero) THEN CouponRateMsg
    ELSE IF e.years_to_maturity <= 0 THEN MaturityMsg
    ELSE IF e.coupons_per_year <= 0 THEN CouponsMsg
    ELSE IF e.num_simulations <= 0 THEN SimulationsMsg
    ELSE ""

\* The constructor: the members are initialised, validateInputs runs, then
\* is_zero_coupon is set; an exception leaves no object.
BondPriceCalculator(fv, cr, ytm, cpy, curve, sims) ==
    LET e == [face_value |-> fv, coupon_rate |-> cr, years_to_maturity |-> ytm,
              coupons_per_year |-> cpy, yield_curve |-> curve,
              num_simulations |-> sims, is_zero_coupon |-> FALSE]
    IN  IF validateInputs(e) # ""
        THEN [err |-> validateInputs(e), obj |-> <<>>]
        ELSE [err |-> "",
              obj |-> <<[e EXCEPT !.is_zero_coupon = (cr = Zero /\ cpy = 1)]>>]

INT_MAX == 2147483647

\* a * b reduced modulo 2^32 to a signed 32-bit int, for 0 < a, b <= INT_MAX,
\* computed on 16-bit and 8-bit limbs
mulWrap(a, b) ==
    LET ah == a \div 65536
        al == a % 65536
        bh == b \div 65536
        bl == b % 65536
        p0 == (al % 256) * bl
        p1 == (al \div 256) * bl
        loSum == (p0 % 65536) + (p1 % 256) * 256
        lo == loSum % 65536
        cross == ((ah * bl) % 65536) + ((al * bh) % 65536)
        hi == ((p0 \div 65536) + (p1 \div 256) + (loSum \div 65536) + cross) % 65536
    IN  IF hi >= 32768 THEN (hi - 65536) * 65536 + lo ELSE hi * 65536 + lo

\* years_to_maturity * coupons_per_year in int arithmetic, both positive.
\* When the product does not fit, signed overflow is undefined: the build
\* either wraps modulo 2^32 (mode "wrap") or traps (mode "trap": -ftrapv, a
\* sanitizer).
intMul(a, b, mode) ==
    IF a <= INT_MAX \div b
    THEN [trap |-> FALSE, value |-> a * b]
    ELSE IF mode = "trap"
    THEN [trap |-> TRUE, value |-> 0]
    ELSE [trap |-> FALSE, value |-> mulWrap(a, b)]

NoCashFlows == [times |-> <<>>, terms |-> <<>>]

\* A price is kept as the cash flows the routine discounts, in the order it
\* adds them: the times handed to interpolate, and per term the cash amount,
\* the base handed to std::pow and the exponent.
Trapped == [status |-> "trapped", zero_coupon |-> FALSE, times |-> <<>>, terms |-> <<>>]

\* The loop of calculateStaticPrice from period i up to n.
RECURSIVE staticCouponLoop(_, _, _, _)
staticCouponLoop(e, i, n, acc) ==
    IF ~(i <= n) THEN acc
    ELSE LET coupon_payment == dDiv(dMul(e.face_value, e.coupon_rate),
                                    I(e.coupons_per_year))
             t == dDiv(I(i), I(e.coupons_per_year))
             ytm == interpolate(e.yield_curve, t)
         IN  staticCouponLoop(e, i + 1, n,
                [times |-> Append(acc.times, t),
                 terms |-> Append(acc.terms,
                    [cash |-> coupon_payment,
                     base |-> dAdd(One, dDiv(ytm, I(e.coupons_per_year))),
                     exp |-> i])])

\* Mutant of calculateStaticPrice: the coupon loop starts at period 2
calculateStaticPrice_skipFirst(e, n) ==
    IF e.is_zero_coupon
    THEN LET ytm == interpolate(e.yield_curve, I(e.years_to_maturity))
         IN  [status |-> "returned", zero_coupon |-> TRUE,
              times |-> <<I(e.years_to_maturity)>>,
              terms |-> <<[cash |-> e.face_value, base |-> dAdd(One, ytm),
                           exp |-> e.years_to_maturity]>>]
    ELSE IF n.trap THEN Trapped
    ELSE LET loop == staticCouponLoop(e, 2, n.value, NoCashFlows)
             final_ytm == interpolate(e.yield_curve, I(e.years_to_maturity))
         IN  [status |-> "returned", zero_coupon |-> FALSE,
              times |-> Append(loop.times, I(e.years_to_maturity)),
              terms |-> Append(loop.terms,
                 [cash |-> e.face_value,
                  base |-> dAdd(One, dDiv(final_ytm, I(e.coupons_per_year))),
                  exp |-> n.value])]

\* calculateStaticPrice(); n is what years_to_maturity * coupons_per_year
\* evaluated to.
calculateStaticPrice(e, n) ==
    IF e.is_zero_coupon
    THEN LET ytm == interpolate(e.yield_curve, I(e.years_to_maturity))
         IN  [status |-> "returned", zero_coupon |-> TRUE,
              times |-> <<I(e.years_to_maturity)>>,
              terms |-> <<[cash |-> e.face_value, base |-> dAdd(One, ytm),
                           exp |-> e.years_to_maturity]>>]
    ELSE IF n.trap THEN Trapped
    ELSE LET loop == staticCouponLoop(e, 1, n.value, NoCashFlows)
             final_ytm == interpolate(e.yield_curve, I(e.years_to_maturity))
         IN  [status |-> "returned", zero_coupon |-> FALSE,
              times |-> Append(loop.times, I(e.years_to_maturity)),
              terms |-> Append(loop.terms,
                 [cash |-> e.face_value,
                  base |-> dAdd(One, dDiv(final_ytm, I(e.coupons_per_year))),
                  exp |-> n.value])]

\* The loop of calculatePrice from period i up to n.
RECURSIVE priceCouponLoop(_, _, _, _, _)
priceCouponLoop(e, curve, i, n, acc) ==
    IF ~(i <= n) THEN acc
    ELSE LET coupon_payment == dDiv(dMul(e.face_value, e.coupon_rate),
                                    I(e.coupons_per_year))
             t == dDiv(I(i), I(e.coupons_per_year))
             ytm == interpolate(curve, t)
         IN  priceCouponLoop(e, curve, i + 1, n,
                [times |-> Append(acc.times, t),
                 terms |-> Append(acc.terms,
                    [cash |-> coupon_payment,
                     base |-> dAdd(One, dDiv(ytm, I(e.coupons_per_year))),
                     exp |-> i])])

\* calculatePrice(curve); n is what years_to_maturity * coupons_per_year
\* evaluated to.
calculatePrice(e, curve, n) ==
    IF e.is_zero_coupon
    THEN LET ytm == interpolate(curve, I(e.years_to_maturity))
         IN  [status |-> "returned", zero_coupon |-> TRUE,
              times |-> <<I(e.years_to_maturity)>>,
              terms |-> <<[cash |-> e.face_value, base |-> dAdd(One, ytm),
                           exp |-> e.years_to_maturity]>>]
    ELSE IF n.trap THEN Trapped
    ELSE LET loop == priceCouponLoop(e, curve, 1, n.value, NoCashFlows)
             final_ytm == interpolate(curve, I(e.years_to_maturity))
         IN  [status |-> "returned", zero_coupon |-> FALSE,
              times |-> Append(loop.times, I(e.years_to_maturity)),
              terms |-> Append(loop.terms,
                 [cash |-> e.face_value,
                  base |-> dAdd(One, dDiv(final_ytm, I(e.coupons_per_year))),
                  exp |-> n.value])]

\* The double a price record stands for: 0.0 plus each term
\* cash / std::pow(base, exp), added in order.
RECURSIVE sumTerms(_, _, _)
sumTerms(terms, k, price) ==
    IF k > Len(terms) THEN price
    ELSE sumTerms(terms, k + 1,
            dAdd(price, dDiv(terms[k].cash, dPow(terms[k].base, terms[k].exp))))

priceValue(p) == sumTerms(p.terms, 1, Zero)

\* Mutant of shiftYieldCurve: the shifted rate stored without std::max(0.0, .)
RECURSIVE shiftLoop_noFloor(_, _, _, _)
shiftLoop_noFloor(e, samples, i, acc) ==
    IF ~(i <= e.years_to_maturity) THEN acc
    ELSE LET base_rate == interpolate(e.yield_curve, I(i))
             shifted_rate == dAdd(base_rate, samples[acc.drawn + 1])
         IN  shiftLoop_noFloor(e, samples, i + 1,
                [maturities |-> Append(acc.maturities, I(i)),
                 rates |-> Append(acc.rates, shifted_rate),
                 drawn |-> acc.drawn + 1])

shiftYieldCurve_noFloor(e, samples) ==
    LET acc == shiftLoop_noFloor(e, samples, 1,
                                 [maturities |-> <<>>, rates |-> <<>>, drawn |-> 0])
    IN  [curve |-> YieldCurve(acc.maturities, acc.rates).obj[1], drawn |-> acc.drawn]

\* The loop of shiftYieldCurve; samples[k] is the k-th value dist(gen) returns
\* in this call, drawn counts the dist(gen) calls.
RECURSIVE shiftLoop(_, _, _, _)
shiftLoop(e, samples, i, acc) ==
    IF ~(i <= e.years_to_maturity) THEN acc
    ELSE LET base_rate == interpolate(e.yield_curve, I(i))
             shifted_rate == dAdd(base_rate, samples[acc.drawn + 1])
         IN  shiftLoop(e, samples, i + 1,
                [maturities |-> Append(acc.maturities, I(i)),
                 rates |-> Append(acc.rates, dMax(Zero, shifted_rate)),
                 drawn |-> acc.drawn + 1])

\* shiftYieldCurve(): the curve returned and the number of samples drawn
shiftYieldCurve(e, samples) ==
    LET acc == shiftLoop(e, samples, 1,
                         [maturities |-> <<>>, rates |-> <<>>, drawn |-> 0])
    IN  [curve |-> YieldCurve(acc.maturities, acc.rates).obj[1], drawn |-> acc.drawn]

\* The end of calculateMonteCarlo: mean = sum / num_simulations and
\* variance = sum of squared deviations / (num_simulations - 1).  The sums are
\* not evaluated; std is sqrt(variance) where the model can tell it: with one
\* price the mean is that price, the deviation is 0.0 and the sum of squares
\* is 0.0; with more the sum is some finite s >= 0, kept as 1.
monteCarloResult(e, ps) ==
    LET sumsq == IF Len(ps) = 1 THEN Zero ELSE One
        variance == dDiv(sumsq, I(e.num_simulations - 1))
    IN  [n_prices |-> Len(ps),
         mean_den |-> e.num_simulations,
         var_den |-> e.num_simulations - 1,
         std_nan |-> IsNaN(variance),
         std_finite |-> IsFinite(variance)]

-----------------------------------------------------------------------------
(* Inputs of the YieldCurve operations *)

MaturityValues == {I(1), I(2), I(3)}
RateValues == {Rat(-1, 100), Rat(1, 100), Rat(3, 100)}
QueryTimes == {Rat(k, 2) : k \in 0..8}

SeqsUpTo(S, n) == UNION {[1..k -> S] : k \in 0..n}

Start ==
    /\ yc = <<>> /\ ycErr = "" /\ ycArgs = <<>> /\ interp = <<>>
    /\ calc = <<>> /\ calcErr = "" /\ calcArgs = <<>>
    /\ static_price = <<>> /\ base_price = <<>>
    /\ mc_pc = "idle" /\ mc_i = 0 /\ prices = <<>>
    /\ shifted_curve = <<>> /\ priced_curve = <<>>
    /\ mc_result = <<>> /\ mc_calls = 0 /\ gen = 0

\* The ordinary build: signed overflow wraps.
Init == Start /\ overflow_mode = "wrap"

\* Either build.
InitWide == Start /\ overflow_mode \in {"wrap", "trap"}

\* YieldCurve yield_curve(maturities, rates);
NewYieldCurve ==
    /\ ycArgs = <<>>
    /\ \E m \in SeqsUpTo(MaturityValues, MaxLen), r \in SeqsUpTo(RateValues, MaxLen) :
          /\ ycArgs' = <<[maturities |-> m, rates |-> r]>>
          /\ ycErr' = YieldCurve(m, r).err
          /\ yc' = YieldCurve(m, r).obj
    /\ UNCHANGED <<interp, calcVars, priceVars, mcVars>>

\* yield_curve.interpolate(t) on a curve with at least one point
Interpolate ==
    /\ yc # <<>>
    /\ Len(yc[1].maturities) > 0
    /\ \E t \in QueryTimes : interp' = <<interpolateStep(yc[1], t)>>
    /\ UNCHANGED <<yc, ycErr, ycArgs, calcVars, priceVars, mcVars>>

\* yield_curve.interpolate(t) on the empty curve: it == begin() holds and
\* rates.front() reads an empty vector, which is undefined: the call either
\* crashes or returns whatever the read yields.
InterpolateEmpty ==
    /\ yc # <<>>
    /\ Len(yc[1].maturities) = 0
    /\ \E t \in QueryTimes :
          \/ interp' = <<[t |-> t, branch |-> "crash", index |-> 0, den |-> One,
                          value |-> NaN]>>
          \/ \E g \in RateValues \cup {NaN} :
                interp' = <<[t |-> t, branch |-> "front", index |-> 0,
                             den |-> One, value |-> g]>>
    /\ UNCHANGED <<yc, ycErr, ycArgs, calcVars, priceVars, mcVars>>

NextCurve == NewYieldCurve \/ Interpolate \/ InterpolateEmpty

SpecCurve == Init /\ [][NextCurve]_vars

-----------------------------------------------------------------------------
(* Inputs of the BondPriceCalculator operations *)

\* The curve main builds, and three more the YieldCurve constructor accepts:
\* flat at 1/2, with a negative rate, with a repeated maturity.
BaseCurves ==
    { YieldCurve(<<I(1), I(2), I(3), I(5), I(10), I(30)>>,
                 <<Rat(1, 100), Rat(3, 200), Rat(1, 50), Rat(1, 40), Rat(3, 100),
                   Rat(7, 200)>>).obj[1],
      YieldCurve(<<I(1), I(2)>>, <<Rat(1, 2), Rat(1, 2)>>).obj[1],
      YieldCurve(<<I(1), I(3)>>, <<Rat(-1, 100), Rat(1, 100)>>).obj[1],
      YieldCurve(<<I(1), I(1), I(2)>>, <<Zero, Rat(1, 100), Rat(1, 50)>>).obj[1] }

FaceValues == {I(-100), Zero, I(20)}
CouponRates == {Rat(-1, 20), Zero, Rat(1, 2)}
Years == (-1)..MaxYears
Coupons == 0..MaxCoupons
Sims == 0..MaxSims

\* Values dist(gen) may return: far below every base rate, slightly negative,
\* slightly positive.
Perturbations == {I(-1), Rat(-1, 200), Rat(1, 200)}

\* <<years_to_maturity, coupons_per_year>> whose int product fits, and whose
\* product is 2^32, 2^31 and 2^32 - 2.
WidePairs ==
    { <<1, 1>>, <<1, 2>>, <<2, 1>>, <<2, 2>>,
      <<65536, 65536>>, <<65536, 32768>>, <<INT_MAX, 2>> }

\* A signed-overflow trap has ended the process.
Aborted ==
    \/ static_price = <<Trapped>>
    \/ base_price = <<Trapped>>
    \/ mc_pc = "aborted"

\* What years_to_maturity * coupons_per_year evaluates to on calc in this build
Periods ==
    intMul(calc[1].years_to_maturity, calc[1].coupons_per_year, overflow_mode)

\* BondPriceCalculator calculator(fv, cr, ytm, cpy, curve, sims);
Construct(fv, cr, ytm, cpy, curve, sims) ==
    /\ calcArgs = <<>>
    /\ calcArgs' = <<[face_value |-> fv, coupon_rate |-> cr,
                      years_to_maturity |-> ytm, coupons_per_year |-> cpy,
                      yield_curve |-> curve, num_simulations |-> sims]>>
    /\ \E made \in {BondPriceCalculator(fv, cr, ytm, cpy, curve, sims)} :
          /\ calcErr' = made.err
          /\ calc' = made.obj
    /\ gen' = 0
    /\ UNCHANGED <<curveVars, priceVars, mc_pc, mc_i, prices, shifted_curve,
                   priced_curve, mc_result, mc_calls, overflow_mode>>

NewCalculator ==
    \E fv \in FaceValues, cr \in CouponRates, ytm \in Years, cpy \in Coupons,
       curve \in BaseCurves, sims \in Sims :
        /\ (ytm > 0 /\ sims > 0) => ytm * sims <= MaxDraws
        /\ Construct(fv, cr, ytm, cpy, curve, sims)

NewCalculatorWide ==
    \E fv \in FaceValues, cr \in CouponRates, yc2 \in WidePairs,
       curve \in BaseCurves, sims \in Sims :
        Construct(fv, cr, yc2[1], yc2[2], curve, sims)

\* calculator.calculateStaticPrice()
CalculateStaticPrice ==
    /\ calc # <<>> /\ mc_pc = "idle" /\ ~Aborted
    /\ static_price' = <<calculateStaticPrice(calc[1], Periods)>>
    /\ UNCHANGED <<curveVars, calcVars, base_price, mcVars>>

\* calculator.calculatePrice(yield_curve): the engine's own base curve
CalculatePrice ==
    /\ calc # <<>> /\ mc_pc = "idle" /\ ~Aborted
    /\ base_price' = <<calculatePrice(calc[1], calc[1].yield_curve, Periods)>>
    /\ UNCHANGED <<curveVars, calcVars, static_price, mcVars>>

\* calculateMonteCarlo() up to its loop
MonteCarloBegin ==
    /\ calc # <<>> /\ mc_pc = "idle" /\ ~Aborted
    /\ mc_calls < MaxCalls
    /\ mc_pc' = "loop"
    /\ mc_i' = 0
    /\ prices' = <<>>
    /\ UNCHANGED <<curveVars, calcVars, priceVars, shifted_curve, priced_curve,
                   mc_result, mc_calls, gen, overflow_mode>>

\* Mutant of MonteCarloTrial: the trial prices the base curve
MonteCarloTrial_baseCurve ==
    /\ mc_pc = "loop"
    /\ mc_i < calc[1].num_simulations
    /\ \E samples \in [1..calc[1].years_to_maturity -> Perturbations] :
          \E shifted \in {shiftYieldCurve(calc[1], samples)} :
          \E price \in {calculatePrice(calc[1], calc[1].yield_curve, Periods)} :
              /\ shifted_curve' = <<shifted.curve>>
              /\ priced_curve' = <<calc[1].yield_curve>>
              /\ gen' = gen + shifted.drawn
              /\ prices' = Append(prices, price)
              /\ mc_pc' = IF price.status = "trapped" THEN "aborted" ELSE "loop"
    /\ mc_i' = mc_i + 1
    /\ UNCHANGED <<curveVars, calcVars, priceVars, mc_result, mc_calls,
                   overflow_mode>>

\* One iteration of the loop of calculateMonteCarlo
MonteCarloTrial ==
    /\ mc_pc = "loop"
    /\ mc_i < calc[1].num_simulations
    /\ \E samples \in [1..calc[1].years_to_maturity -> Perturbations] :
          \E shifted \in {shiftYieldCurve(calc[1], samples)} :
          \E price \in {calculatePrice(calc[1], shifted.curve, Periods)} :
              /\ shifted_curve' = <<shifted.curve>>
              /\ priced_curve' = <<shifted.curve>>
              /\ gen' = gen + shifted.drawn
              /\ prices' = Append(prices, price)
              /\ mc_pc' = IF price.status = "trapped" THEN "aborted" ELSE "loop"
    /\ mc_i' = mc_i + 1
    /\ UNCHANGED <<curveVars, calcVars, priceVars, mc_result, mc_calls,
                   overflow_mode>>

\* The loop's exit, the mean and the deviation, and the return; the locals
\* go out of scope.
MonteCarloEnd ==
    /\ mc_pc = "loop"
    /\ ~(mc_i < calc[1].num_simulations)
    /\ mc_result' = <<monteCarloResult(calc[1], prices)>>
    /\ mc_calls' = mc_calls + 1
    /\ mc_pc' = "idle"
    /\ mc_i' = 0
    /\ prices' = <<>>
    /\ shifted_curve' = <<>>
    /\ priced_curve' = <<>>
    /\ UNCHANGED <<curveVars, calcVars, priceVars, gen, overflow_mode>>

Next ==
    \/ NewCalculator
    \/ CalculateStaticPrice
    \/ CalculatePrice
    \/ MonteCarloBegin
    \/ MonteCarloTrial
    \/ MonteCarloEnd

Spec == Init /\ [][Next]_vars

NextWide == NewCalculatorWide \/ CalculateStaticPrice \/ CalculatePrice

SpecWide == InitWide /\ [][NextWide]_vars

-----------------------------------------------------------------------------
(* Claims about YieldCurve, checked under SpecCurve *)

NonDecreasing(m) == \A k \in 1..(Len(m) - 1) : dLe(m[k], m[k + 1])
StrictlyIncreasing(m) == \A k \in 1..(Len(m) - 1) : dLt(m[k], m[k + 1])
HasRepeat(m) == \E k \in 1..(Len(m) - 1) : m[k] = m[k + 1]

\* The claim's reference: 1-based position of the first maturity >= t, or
\* Len(m) + 1 when there is none.
RefPosition(m, t) ==
    IF \E k \in 1..Len(m) : dLe(t, m[k])
    THEN CHOOSE k \in 1..Len(m) :
            /\ dLe(t, m[k])
            /\ \A j \in 1..(k - 1) : ~dLe(t, m[j])
    ELSE Len(m) + 1

RefInterpolate(c, t) ==
    LET m == c.maturities
        r == c.rates
        k == RefPosition(m, t)
    IN  IF dLe(t, m[1]) THEN r[1]
        ELSE IF dLt(m[Len(m)], t) THEN r[Len(r)]
        ELSE dAdd(r[k - 1], dDiv(dMul(dSub(r[k], r[k - 1]), dSub(t, m[k - 1])),
                                 dSub(m[k], m[k - 1])))

\* C2: on a non-empty curve with strictly increasing maturities interpolate(t)
\* returns the reference piecewise value: the first rate for t <= first
\* maturity, the last rate for t > last maturity, else the line through the
\* point at the smallest index whose maturity is >= t and the point before it
\* (t0 < t <= t1); t equal to a maturity returns that point's rate.
C2_InterpolateMatchesReference ==
    (interp # <<>> /\ Len(yc[1].maturities) > 0
        /\ StrictlyIncreasing(yc[1].maturities)) =>
    LET c == yc[1]
        m == c.maturities
        s == interp[1]
        k == RefPosition(m, s.t)
    IN  /\ s.value = RefInterpolate(c, s.t)
        /\ s.index + 1 = k
        /\ s.branch = "front" <=> dLe(s.t, m[1])
        /\ s.branch = "back" <=> dLt(m[Len(m)], s.t)
        /\ s.branch = "linear" => dLt(m[k - 1], s.t) /\ dLe(s.t, m[k])
        /\ \A j \in 1..Len(m) : s.t = m[j] => s.value = c.rates[j]

\* C2 witness: a linear interpolation strictly inside a segment of a strictly
\* increasing three-point curve, whose value is neither end's rate.
C2_Witness ==
    /\ interp # <<>>
    /\ Len(yc[1].maturities) = 3
    /\ StrictlyIncreasing(yc[1].maturities)
    /\ interp[1].branch = "linear"
    /\ interp[1].index = 2
    /\ \A j \in 1..3 : interp[1].value # yc[1].rates[j]

\* C6: the YieldCurve constructor throws the size-mismatch error exactly when
\* the two sequences differ in length; every equal-length pair is accepted as
\* given, whatever its order, signs or repeats.
C6_ConstructorChecksOnlyLength ==
    ycArgs # <<>> =>
    LET a == ycArgs[1]
    IN  /\ ycErr = MismatchMsg <=> Len(a.maturities) # Len(a.rates)
        /\ ycErr = "" <=> Len(a.maturities) = Len(a.rates)
        /\ ycErr # "" => yc = <<>>
        /\ ycErr = "" => yc = <<[maturities |-> a.maturities, rates |-> a.rates]>>

\* C6 witness: an accepted curve that is unsorted, repeats a maturity and
\* holds a negative rate.
C6_Witness ==
    /\ yc # <<>>
    /\ yc[1].maturities = <<I(3), I(1), I(1)>>
    /\ yc[1].rates[2] = Rat(-1, 100)

\* C8 as claimed: an accepted curve with non-decreasing maturities and a
\* repeated value has an input t for which interpolate reaches the linear
\* branch with t1 = t0 (denominator 0), the index being the one the
\* lower-bound search returns.
C8_DuplicateDividesByZero ==
    (yc # <<>> /\ Len(yc[1].maturities) > 0
        /\ NonDecreasing(yc[1].maturities) /\ HasRepeat(yc[1].maturities)) =>
    \E t \in QueryTimes \cup MaturityValues :
        /\ interpolateStep(yc[1], t).branch = "linear"
        /\ interpolateStep(yc[1], t).den = Zero

\* C8 amended: on every accepted curve with non-decreasing maturities, repeats
\* included, an interpolate call that reaches the linear branch has
\* t0 < t <= t1, so its denominator t1 - t0 is strictly positive and no
\* division by zero happens.
C8_NoDivisionByZero ==
    (interp # <<>> /\ Len(yc[1].maturities) > 0
        /\ NonDecreasing(yc[1].maturities) /\ interp[1].branch = "linear") =>
    LET m == yc[1].maturities
        s == interp[1]
    IN  /\ dLt(m[s.index], s.t)
        /\ dLe(s.t, m[s.index + 1])
        /\ s.den = dSub(m[s.index + 1], m[s.index])
        /\ dLt(Zero, s.den)
        /\ IsFinite(s.value)

\* C8 witness: the linear branch taken on a non-decreasing curve whose
\* repeated maturity is the segment's left end t0.
C8_Witness ==
    /\ interp # <<>>
    /\ yc[1].maturities = <<I(2), I(2), I(3)>>
    /\ interp[1].branch = "linear"
    /\ interp[1].t = Rat(5, 2)
    /\ interp[1].index = 2

-----------------------------------------------------------------------------
(* Claims about BondPriceCalculator *)

\* The claim's rule set, in its order, over the constructor's arguments
FirstViolatedRule(a) ==
    IF ~dLt(Zero, a.face_value) THEN FaceValueMsg
    ELSE IF ~dLe(Zero, a.coupon_rate) THEN CouponRateMsg
    ELSE IF ~(a.years_to_maturity > 0) THEN MaturityMsg
    ELSE IF ~(a.coupons_per_year > 0) THEN CouponsMsg
    ELSE IF ~(a.num_simulations > 0) THEN SimulationsMsg
    ELSE ""

AllRulesHold(a) ==
    /\ dLt(Zero, a.face_value)
    /\ dLe(Zero, a.coupon_rate)
    /\ a.years_to_maturity > 0
    /\ a.coupons_per_year > 0
    /\ a.num_simulations > 0

\* C1: construction succeeds exactly when face_value > 0, coupon_rate >= 0,
\* years_to_maturity > 0, coupons_per_year > 0 and num_simulations > 0; the
\* error is that of the first violated rule in this order; a failed
\* construction leaves no engine and no pricing method has run.
C1_ValidationOrder ==
    calcArgs # <<>> =>
    LET a == calcArgs[1]
    IN  /\ calc # <<>> <=> AllRulesHold(a)
        /\ calcErr = FirstViolatedRule(a)
        /\ calcErr # "" =>
              /\ calc = <<>>
              /\ static_price = <<>> /\ base_price = <<>>
              /\ mc_result = <<>> /\ mc_pc = "idle" /\ gen = 0
        /\ calc # <<>> =>
              /\ calc[1].face_value = a.face_value
              /\ calc[1].coupon_rate = a.coupon_rate
              /\ calc[1].years_to_maturity = a.years_to_maturity
              /\ calc[1].coupons_per_year = a.coupons_per_year
              /\ calc[1].num_simulations = a.num_simulations

\* C1 witness: face value, coupon frequency and simulation count all invalid;
\* the face-value error is raised and no engine exists.
C1_Witness ==
    /\ calcArgs # <<>>
    /\ calcArgs[1].face_value = I(-100)
    /\ calcArgs[1].coupons_per_year = 0
    /\ calcArgs[1].num_simulations = 0
    /\ calcErr = FaceValueMsg
    /\ calc = <<>>

\* The coupon times calculatePrice hands to interpolate
CouponTimes(e) ==
    { dDiv(I(i), I(e.coupons_per_year)) :
        i \in 1..(e.years_to_maturity * e.coupons_per_year) }

\* C3: every curve shiftYieldCurve returns stores only rates >= 0, and
\* interpolate on it is >= 0 at every t, the coupon times i / coupons_per_year
\* included, whatever the samples were.
C3_ShiftedRatesNonNegative ==
    shifted_curve # <<>> =>
    LET c == shifted_curve[1]
    IN  /\ Len(c.rates) = calc[1].years_to_maturity
        /\ \A k \in 1..Len(c.rates) : dLe(Zero, c.rates[k])
        /\ \A t \in CouponTimes(calc[1]) \cup QueryTimes :
              dLe(Zero, interpolate(c, t))

\* C3 witness: over the all-positive curve of main, a two-year shifted curve
\* whose first rate was floored to 0 and whose second was not, on an engine
\* with two coupons a year (coupon times 1/2 < 1 and 2 = years_to_maturity).
C3_Witness ==
    /\ shifted_curve # <<>>
    /\ Len(calc[1].yield_curve.maturities) = 6
    /\ calc[1].coupons_per_year = 2
    /\ calc[1].years_to_maturity = 2
    /\ shifted_curve[1].rates[1] = Zero
    /\ dLt(Zero, shifted_curve[1].rates[2])

\* C4: a calculateMonteCarlo call runs exactly num_simulations trials and
\* returns; each trial prices the curve shiftYieldCurve returned in that same
\* trial and draws years_to_maturity samples; the source only advances, so
\* after k calls it has drawn k * num_simulations * years_to_maturity samples.
C4_MonteCarloTrials ==
    calc # <<>> =>
    LET e == calc[1]
        done == IF mc_pc = "loop" THEN mc_i ELSE 0
    IN  /\ mc_pc \in {"idle", "loop"}
        /\ mc_i \in 0..e.num_simulations
        /\ Len(prices) = done
        /\ gen = (mc_calls * e.num_simulations + done) * e.years_to_maturity
        /\ (mc_pc = "loop" /\ mc_i > 0) =>
              /\ shifted_curve # <<>>
              /\ priced_curve = shifted_curve
              /\ shifted_curve[1].maturities =
                    [k \in 1..e.years_to_maturity |-> I(k)]
              /\ prices[mc_i] = calculatePrice(e, shifted_curve[1], Periods)
        /\ mc_pc = "idle" => mc_i = 0 /\ shifted_curve = <<>> /\ priced_curve = <<>>
        /\ mc_result # <<>> <=> mc_calls > 0
        /\ mc_result # <<>> =>
              /\ mc_result[1].n_prices = e.num_simulations
              /\ mc_result[1].mean_den = e.num_simulations

\* C4 witness: two completed calls of two trials on a two-year bond: the
\* source has drawn 2 * 2 * 2 = 8 samples.
C4_Witness ==
    /\ calc # <<>>
    /\ mc_pc = "idle"
    /\ mc_calls = 2
    /\ calc[1].num_simulations = 2
    /\ calc[1].years_to_maturity = 2
    /\ gen = 8

\* C5: calculateStaticPrice() and calculatePrice(yield_curve) on the engine's
\* own curve take the same branch, hand interpolate the same times in the same
\* order and discount the same cash amounts with the same bases and
\* exponents, hence return the same value, before and after Monte Carlo calls.
C5_StaticEqualsPriceOfBase ==
    (static_price # <<>> /\ base_price # <<>>) =>
        /\ static_price[1].status = "returned"
        /\ static_price[1].zero_coupon = base_price[1].zero_coupon
        /\ static_price[1].zero_coupon = calc[1].is_zero_coupon
        /\ static_price[1].times = base_price[1].times
        /\ static_price[1].terms = base_price[1].terms
        /\ static_price = base_price

\* C5 witness: both routines have run on a coupon-bearing engine with four
\* periods that has completed a Monte Carlo call.
C5_Witness ==
    /\ static_price # <<>> /\ base_price # <<>>
    /\ ~calc[1].is_zero_coupon
    /\ Len(static_price[1].terms) = 5
    /\ mc_calls >= 1

FlatAt(c, r) == \A k \in 1..Len(c.rates) : c.rates[k] = r

\* C7: a coupon-bearing engine (coupon_rate > 0, any coupons_per_year >= 1,
\* any years_to_maturity >= 1) whose curve is flat at coupon_rate has static
\* price face_value in exact arithmetic: the N coupons of periods 1..N and
\* the face value with exponent N, N = years_to_maturity * coupons_per_year
\* (written N \div c = y /\ N % c = 0), sum to face_value.
C7_ParBond ==
    (static_price # <<>> /\ ~calc[1].is_zero_coupon
        /\ dLt(Zero, calc[1].coupon_rate)
        /\ FlatAt(calc[1].yield_curve, calc[1].coupon_rate)) =>
    LET e == calc[1]
        p == static_price[1]
        k == Len(p.terms) - 1
    IN  /\ p.status = "returned"
        /\ k \div e.coupons_per_year = e.years_to_maturity
        /\ k % e.coupons_per_year = 0
        /\ p.terms[k + 1].exp = k
        /\ priceValue(p) = e.face_value

\* C9: with num_simulations = 1 and the other arguments valid the engine is
\* constructed without error, and calculateMonteCarlo returns after its one
\* trial having divided by num_simulations - 1 = 0: the deviation returned is
\* NaN, and no error is reported.
C9_SingleSimulationDividesByZero ==
    /\ (calcArgs # <<>> /\ calcArgs[1].num_simulations = 1
            /\ AllRulesHold([calcArgs[1] EXCEPT !.num_simulations = 2])) =>
          calc # <<>> /\ calcErr = ""
    /\ (calc # <<>> /\ calc[1].num_simulations = 1 /\ mc_result # <<>>) =>
          /\ mc_result[1].n_prices = 1
          /\ mc_result[1].var_den = 0
          /\ mc_result[1].std_nan
          /\ ~mc_result[1].std_finite
          /\ calcErr = ""

\* C9 witness: a Monte Carlo call has returned on an engine with
\* num_simulations = 1.
C9_Witness ==
    /\ calc # <<>>
    /\ calc[1].num_simulations = 1
    /\ mc_result # <<>>
    /\ mc_result[1].var_den = 0

-----------------------------------------------------------------------------
(* Claim about the number of periods *)

\* p discounts exactly N coupons at periods 1..N and the face value with
\* exponent N, where N = years_to_maturity * coupons_per_year as integers.
\* N = y * c is written N \div c = y /\ N % c = 0, which needs no product.
DiscountsAllPeriods(e, p) ==
    LET k == Len(p.terms) - 1
    IN  /\ p.status = "returned"
        /\ k >= 1
        /\ k \div e.coupons_per_year = e.years_to_maturity
        /\ k % e.coupons_per_year = 0
        /\ p.terms[k + 1].exp = k
        /\ p.terms[k + 1].cash = e.face_value
        /\ \A i \in 1..k :
              /\ p.terms[i].exp = i
              /\ p.times[i] = dDiv(I(i), I(e.coupons_per_year))

\* C10: on the coupon-bearing path both pricing routines discount exactly
\* N = years_to_maturity * coupons_per_year coupons, periods 1..N in order
\* with t_i = i / coupons_per_year and exponent i, and the face value with
\* exponent N, N being the mathematical product, for all positive 32-bit
\* inputs, those whose product exceeds 2^31 - 1 included.
C10_DiscountsMathematicalProduct ==
    /\ (static_price # <<>> /\ ~calc[1].is_zero_coupon) =>
          DiscountsAllPeriods(calc[1], static_price[1])
    /\ (base_price # <<>> /\ ~calc[1].is_zero_coupon) =>
          DiscountsAllPeriods(calc[1], base_price[1])

====
